---- MODULE Spec2Model ----
(***************************************************************************)
(* Wagering ledger and settlement engine of solaSphere.                    *)
(*                                                                         *)
(* The transactional GameService (src/src/user/user.gateway.ts, lines      *)
(* 28-210) is modelled as a set of concurrent calls.  Every await of a     *)
(* handler is one step.  Money is counted in hundredths of the balance     *)
(* unit, so that amount * (1 + GAME_FEE / 100) is exact.                   *)
(*                                                                         *)
(* The store is MongoDB with multi-document transactions: a transaction    *)
(* takes its snapshot at its first operation, a write to a document that   *)
(* another open transaction has written, or that was committed after the   *)
(* snapshot, raises a write conflict, and a document save writes only the  *)
(* paths the handler modified.  Reads made before startTransaction see the *)
(* committed store.                                                        *)
(***************************************************************************)
EXTENDS Integers, Sequences, FiniteSets, TLC

\* ---------------------------------------------------------------- bounds
NumUsers == 3
NumCreators == 2
NumCalls == 2
NumPasses == 2
NumTxs == 2
NumDepositors == 1
DepositAmount == 150
MaxGames == 1
AdmMaxGames == 7
InitBalance == 200
AdmInitBalance == 1000

\* ------------------------------------------------------ program constants
GAME_FEE == 4
ActiveGameLimit == 5

Users == 1..NumUsers
Creators == 1..NumCreators
Calls == 1..NumCalls
Passes == 1..NumPasses
Depositors == 1..NumDepositors
Moves == {0, 1, 2}
CreatorMoves == {0}
Amounts == {100}
None == 0
NoMove == -1

VARIABLES balance, games, pc, op, usr, gid, amt, mv, doc, delta, wset, stale, result,
          sent, txs, fin, rpc, batch

\* The deposit reconciler's state: the transaction records, the signatures the
\* chain has finalized, and each pass's position and batch.
recon == <<txs, fin, rpc, batch>>

vars == <<balance, games, pc, op, usr, gid, amt, mv, doc, delta, wset, stale, result,
          sent, recon>>

\* ------------------------------------------------------------ documents
NoDoc == [creator |-> None, amount |-> 0, creatorMove |-> NoMove, opponent |-> None,
          opponentMove |-> NoMove, status |-> "none", winner |-> None]

NewGame(u, a, m) == [creator |-> u, amount |-> a, creatorMove |-> m, opponent |-> None,
                     opponentMove |-> NoMove, status |-> "active", winner |-> None]

UserDoc(u) == <<"user", u>>
GameDoc(g) == <<"game", g>>

ZeroDelta == [u \in Users |-> 0]

\* ------------------------------------------------------- pure functions
Hundredths(units) == units * 100

PayAmount(a) == a * (100 + GAME_FEE)

TieRefundStakeOnly(a) == a * 100

TieRefund(a) == a * (100 + GAME_FEE)

WinnerPayoutNetOfFee(a) == a * 2 * (100 - GAME_FEE)

WinnerPayout(a) == Hundredths(a * 2)

CancelRefundStakeOnly(a) == Hundredths(a)

CancelRefund(a) == a * (100 + GAME_FEE)

SortedMoves(cm, om) == IF cm <= om THEN <<cm, om>> ELSE <<om, cm>>

WinningChoiceMax(cm, om) == IF cm >= om THEN cm ELSE om

WinningChoice(cm, om) ==
    LET moves == SortedMoves(cm, om)
    IN  IF moves[1] = 0 /\ moves[2] = 2 THEN 0 ELSE moves[2]

\* The non-transactional variant. Its wraparound test compares the array
\* [creatorMove, opponentMove] with a fresh array literal by ===, which is
\* object identity and never holds, so the choice is always Math.max.
ArrayIdentical(moves, literal) == FALSE

MaxMove(cm, om) == IF cm >= om THEN cm ELSE om

OldWinningChoiceElementwise(cm, om) ==
    IF <<cm, om>> = <<0, 2>> \/ <<cm, om>> = <<2, 0>> THEN 0 ELSE MaxMove(cm, om)

OldWinningChoice(cm, om) ==
    IF ArrayIdentical(<<cm, om>>, <<0, 2>>) \/ ArrayIdentical(<<cm, om>>, <<2, 0>>)
    THEN 0
    ELSE MaxMove(cm, om)

OldWinner(d) == IF d.creatorMove = OldWinningChoice(d.creatorMove, d.opponentMove)
                THEN d.creator ELSE d.opponent

\* The non-transactional variant debits the bare amount at create and at join
\* and refunds the bare amount to both sides on a tie.
OldStake(a) == Hundredths(a)

OldTieRefund(a) == Hundredths(a)

Winner(d) == IF d.creatorMove = WinningChoice(d.creatorMove, d.opponentMove)
             THEN d.creator ELSE d.opponent

UserActiveCountEnded(gs, u) ==
    Cardinality({g \in 1..Len(gs) : gs[g].creator = u /\ gs[g].status = "ended"})

UserActiveCount(gs, u) ==
    Cardinality({g \in 1..Len(gs) : gs[g].creator = u /\ gs[g].status = "active"})

FindById(gs, g) == IF g \in 1..Len(gs) THEN gs[g] ELSE NoDoc

NotActiveForgetsEnded(game) == game.status = "cancelled"

\* game.status !== 'active'
NotActive(game) == game.status # "active"

\* --------------------------------------------------------- transactions
Open(c) == wset[c] # {}

Conflict(c, d) == \/ d \in stale[c]
                  \/ \E o \in Calls \ {c} : d \in wset[o]

\* UserService.changeBalance: a signed delta on the stored balance, inside
\* the caller's transaction; it throws when the document cannot be written or
\* the resulting balance would be negative, and then applies nothing.
ChangeBalanceThrows(c, u, amount) ==
    \/ Conflict(c, UserDoc(u))
    \/ balance[u] + delta[c][u] + amount < 0

Locals(c, p, r) ==
    /\ pc' = [pc EXCEPT ![c] = p]
    /\ result' = [result EXCEPT ![c] = r]

\* A validation failure raised after a debit had already been applied.
RejectLeavesDebit(c, o, u, g, reason) ==
    /\ Locals(c, "done", reason)
    /\ op' = [op EXCEPT ![c] = o]
    /\ gid' = [gid EXCEPT ![c] = g]
    /\ balance' = [balance EXCEPT ![u] = @ - PayAmount(1)]
    /\ UNCHANGED <<games, usr, amt, mv, doc, delta, wset, stale, sent>>

\* A validation failure: throw before startSession, nothing was written.
Reject(c, o, u, g, reason) ==
    /\ Locals(c, "done", reason)
    /\ op' = [op EXCEPT ![c] = o]
    /\ gid' = [gid EXCEPT ![c] = g]
    /\ UNCHANGED <<balance, games, usr, amt, mv, doc, delta, wset, stale, sent>>

\* The call's scratch state is dropped when the handler returns or throws; a
\* call that opened a transaction keeps its caller, operation and game id.
DropScratch(c) ==
    /\ delta' = [delta EXCEPT ![c] = ZeroDelta]
    /\ wset' = [wset EXCEPT ![c] = {}]
    /\ doc' = [doc EXCEPT ![c] = NoDoc]
    /\ amt' = [amt EXCEPT ![c] = 0]
    /\ mv' = [mv EXCEPT ![c] = NoMove]

\* catch (e) { await session.abortTransaction(); throw ... }
Abort(c) ==
    /\ Locals(c, "done", "Failed")
    /\ DropScratch(c)
    /\ stale' = [stale EXCEPT ![c] = {}]
    /\ UNCHANGED <<balance, games, op, usr, gid, sent>>

\* The notification dispatcher: the events call c has emitted so far.
Notify(c, event) == sent' = [sent EXCEPT ![c] = @ \cup {event}]

\* changeBalance(user, amount) notifies unless { disableNotification: true }.
BalanceNotify(c, enabled) ==
    IF enabled THEN Notify(c, "balanceChange") ELSE UNCHANGED sent

\* A successful changeBalance(u, amount) of call c, moving on to p.
Stage(c, u, amount, p) ==
    /\ delta' = [delta EXCEPT ![c][u] = @ + amount]
    /\ wset' = [wset EXCEPT ![c] = @ \cup {UserDoc(u)}]
    /\ pc' = [pc EXCEPT ![c] = p]
    /\ UNCHANGED <<balance, games, op, usr, gid, amt, mv, result, stale>>

\* A successful document.save() of the game of call c, moving on to p.
StageGame(c, p) ==
    /\ wset' = [wset EXCEPT ![c] = @ \cup {GameDoc(gid[c])}]
    /\ pc' = [pc EXCEPT ![c] = p]
    /\ UNCHANGED <<balance, games, op, usr, gid, amt, mv, doc, delta, result, stale, sent>>

\* session.commitTransaction(): the staged writes become visible at once;
\* every other open transaction's snapshot is now older than these documents.
CommitStale(c) ==
    [o \in Calls |-> IF o # c /\ Open(o) THEN stale[o] \cup wset[c] ELSE stale[o]]

CommitBalance(c) == [u \in Users |-> balance[u] + delta[c][u]]

CommitLocals(c) ==
    /\ Locals(c, "done", "ok")
    /\ DropScratch(c)
    /\ stale' = [CommitStale(c) EXCEPT ![c] = {}]
    /\ Notify(c, "game")
    /\ UNCHANGED <<op, usr, gid>>

\* ------------------------------------------------------------ GameService.create
CreateCheck(c, u, a, m) ==
    /\ pc[c] = "idle"
    /\ UNCHANGED recon
    /\ IF balance[u] < PayAmount(a)
       THEN Reject(c, "create", u, 0, "InsufficientBalance")
       ELSE /\ pc' = [pc EXCEPT ![c] = "c_count"]
            /\ op' = [op EXCEPT ![c] = "create"]
            /\ usr' = [usr EXCEPT ![c] = u]
            /\ amt' = [amt EXCEPT ![c] = a]
            /\ mv' = [mv EXCEPT ![c] = m]
            /\ UNCHANGED <<balance, games, gid, doc, delta, wset, stale, result, sent>>

CreateCount(c) ==
    /\ pc[c] = "c_count"
    /\ UNCHANGED recon
    /\ IF UserActiveCount(games, usr[c]) >= ActiveGameLimit
       THEN /\ Locals(c, "done", "ActiveGameLimitExceeded")
            /\ usr' = [usr EXCEPT ![c] = None]
            /\ amt' = [amt EXCEPT ![c] = 0]
            /\ mv' = [mv EXCEPT ![c] = NoMove]
            /\ UNCHANGED <<balance, games, op, gid, doc, delta, wset, stale, sent>>
       ELSE /\ pc' = [pc EXCEPT ![c] = "c_debit"]
            /\ UNCHANGED <<balance, games, op, usr, gid, amt, mv, doc, delta, wset, stale, result,
                           sent>>

CreateDebitUnchecked(c) ==
    /\ pc[c] = "c_debit"
    /\ UNCHANGED recon
    /\ IF Conflict(c, UserDoc(usr[c]))
       THEN Abort(c)
       ELSE /\ Stage(c, usr[c], -PayAmount(amt[c]), "c_save")
            /\ BalanceNotify(c, TRUE)
            /\ doc' = [doc EXCEPT ![c] = NewGame(usr[c], amt[c], mv[c])]

CreateDebit(c) ==
    /\ pc[c] = "c_debit"
    /\ UNCHANGED recon
    /\ IF ChangeBalanceThrows(c, usr[c], -PayAmount(amt[c]))
       THEN Abort(c)
       ELSE /\ Stage(c, usr[c], -PayAmount(amt[c]), "c_save")
            /\ BalanceNotify(c, TRUE)
            /\ doc' = [doc EXCEPT ![c] = NewGame(usr[c], amt[c], mv[c])]

CreateSave(c) ==
    /\ pc[c] = "c_save"
    /\ UNCHANGED recon
    /\ pc' = [pc EXCEPT ![c] = "c_commit"]
    /\ UNCHANGED <<balance, games, op, usr, gid, amt, mv, doc, delta, wset, stale, result, sent>>

CreateCommit(c) ==
    /\ pc[c] = "c_commit"
    /\ UNCHANGED recon
    /\ balance' = CommitBalance(c)
    /\ games' = Append(games, doc[c])
    /\ CommitLocals(c)

\* ------------------------------------------------------------ GameService.join
JoinRead(c, u, g, m) ==
    /\ pc[c] = "idle"
    /\ UNCHANGED recon
    /\ LET game == FindById(games, g)
       IN  IF game = NoDoc THEN Reject(c, "join", u, g, "GameNotFound")
           ELSE IF NotActive(game) THEN Reject(c, "join", u, g, "GameNotActive")
           ELSE IF balance[u] < PayAmount(game.amount)
                THEN Reject(c, "join", u, g, "InsufficientBalance")
           ELSE IF u = game.creator THEN Reject(c, "join", u, g, "SelfJoinForbidden")
           ELSE /\ pc' = [pc EXCEPT ![c] = "j_debit"]
                /\ op' = [op EXCEPT ![c] = "join"]
                /\ usr' = [usr EXCEPT ![c] = u]
                /\ gid' = [gid EXCEPT ![c] = g]
                /\ mv' = [mv EXCEPT ![c] = m]
                /\ doc' = [doc EXCEPT ![c] = game]
                /\ UNCHANGED <<balance, games, amt, delta, wset, stale, result, sent>>

JoinDebit(c) ==
    /\ pc[c] = "j_debit"
    /\ UNCHANGED recon
    /\ IF ChangeBalanceThrows(c, usr[c], -PayAmount(doc[c].amount))
       THEN Abort(c)
       ELSE /\ Stage(c, usr[c], -PayAmount(doc[c].amount), "j_pick")
            /\ BalanceNotify(c, TRUE)
            /\ doc' = [doc EXCEPT ![c].opponent = usr[c], ![c].opponentMove = mv[c],
                                  ![c].status = "ended"]

\* ------------------------------------------------------------ GameService.pickWinner
PickTieCreator(c) ==
    /\ pc[c] = "j_pick"
    /\ UNCHANGED recon
    /\ doc[c].creatorMove = doc[c].opponentMove
    /\ IF ChangeBalanceThrows(c, doc[c].creator, TieRefund(doc[c].amount))
       THEN Abort(c)
       ELSE /\ Stage(c, doc[c].creator, TieRefund(doc[c].amount), "j_tie")
            /\ BalanceNotify(c, FALSE)
            /\ UNCHANGED doc

PickTieOpponent(c) ==
    /\ pc[c] = "j_tie"
    /\ UNCHANGED recon
    /\ IF ChangeBalanceThrows(c, doc[c].opponent, TieRefund(doc[c].amount))
       THEN Abort(c)
       ELSE /\ Stage(c, doc[c].opponent, TieRefund(doc[c].amount), "j_save")
            /\ BalanceNotify(c, FALSE)
            /\ UNCHANGED doc

PickDecisive(c) ==
    /\ pc[c] = "j_pick"
    /\ UNCHANGED recon
    /\ doc[c].creatorMove # doc[c].opponentMove
    /\ IF ChangeBalanceThrows(c, Winner(doc[c]), WinnerPayout(doc[c].amount))
       THEN Abort(c)
       ELSE /\ Stage(c, Winner(doc[c]), WinnerPayout(doc[c].amount), "j_save")
            /\ BalanceNotify(c, FALSE)
            /\ doc' = [doc EXCEPT ![c].winner = Winner(doc[c])]

PickSave(c) ==
    /\ pc[c] = "j_save"
    /\ UNCHANGED recon
    /\ IF Conflict(c, GameDoc(gid[c])) THEN Abort(c) ELSE StageGame(c, "j_commit")

\* The paths join and pickWinner modified on the game document.
JoinSaved(stored, d) ==
    [stored EXCEPT !.opponent = d.opponent, !.opponentMove = d.opponentMove,
                   !.status = d.status,
                   !.winner = IF d.winner # None THEN d.winner ELSE @]

JoinCommit(c) ==
    /\ pc[c] = "j_commit"
    /\ UNCHANGED recon
    /\ balance' = CommitBalance(c)
    /\ games' = [games EXCEPT ![gid[c]] = JoinSaved(@, doc[c])]
    /\ CommitLocals(c)

\* ------------------------------------------------------------ GameService.cancel
CancelRead(c, u, g) ==
    /\ pc[c] = "idle"
    /\ UNCHANGED recon
    /\ LET game == FindById(games, g)
       IN  IF game = NoDoc THEN Reject(c, "cancel", u, g, "GameNotFound")
           ELSE IF u # game.creator THEN Reject(c, "cancel", u, g, "NotOwner")
           ELSE IF NotActive(game) THEN Reject(c, "cancel", u, g, "GameNotActive")
           ELSE /\ pc' = [pc EXCEPT ![c] = "x_save"]
                /\ op' = [op EXCEPT ![c] = "cancel"]
                /\ usr' = [usr EXCEPT ![c] = u]
                /\ gid' = [gid EXCEPT ![c] = g]
                /\ doc' = [doc EXCEPT ![c] = game]
                /\ UNCHANGED <<balance, games, amt, mv, delta, wset, stale, result, sent>>

CancelSave(c) ==
    /\ pc[c] = "x_save"
    /\ UNCHANGED recon
    /\ IF Conflict(c, GameDoc(gid[c]))
       THEN Abort(c)
       ELSE /\ wset' = [wset EXCEPT ![c] = @ \cup {GameDoc(gid[c])}]
            /\ pc' = [pc EXCEPT ![c] = "x_refund"]
            /\ doc' = [doc EXCEPT ![c].status = "cancelled"]
            /\ UNCHANGED <<balance, games, op, usr, gid, amt, mv, delta, result, stale, sent>>

CancelRefundStep(c) ==
    /\ pc[c] = "x_refund"
    /\ UNCHANGED recon
    /\ IF ChangeBalanceThrows(c, usr[c], CancelRefund(doc[c].amount))
       THEN Abort(c)
       ELSE /\ Stage(c, usr[c], CancelRefund(doc[c].amount), "x_commit")
            /\ BalanceNotify(c, TRUE)
            /\ UNCHANGED doc

CancelCommit(c) ==
    /\ pc[c] = "x_commit"
    /\ UNCHANGED recon
    /\ balance' = CommitBalance(c)
    /\ games' = [games EXCEPT ![gid[c]].status = doc[c].status]
    /\ CommitLocals(c)

\* ---------------------------------------------------------------- call return
Return(c) ==
    /\ pc[c] = "done"
    /\ UNCHANGED recon
    /\ Locals(c, "idle", "none")
    /\ op' = [op EXCEPT ![c] = "none"]
    /\ usr' = [usr EXCEPT ![c] = None]
    /\ gid' = [gid EXCEPT ![c] = 0]
    /\ sent' = [sent EXCEPT ![c] = {}]
    /\ UNCHANGED <<balance, games, amt, mv, doc, delta, wset, stale>>

\* ---------------------------------------------------------------- specification
InitWith(b) ==
    /\ balance = [u \in Users |-> Hundredths(b)]
    /\ games = <<>>
    /\ pc = [c \in Calls |-> "idle"]
    /\ op = [c \in Calls |-> "none"]
    /\ usr = [c \in Calls |-> None]
    /\ gid = [c \in Calls |-> 0]
    /\ amt = [c \in Calls |-> 0]
    /\ mv = [c \in Calls |-> NoMove]
    /\ doc = [c \in Calls |-> NoDoc]
    /\ delta = [c \in Calls |-> ZeroDelta]
    /\ wset = [c \in Calls |-> {}]
    /\ stale = [c \in Calls |-> {}]
    /\ result = [c \in Calls |-> "none"]
    /\ sent = [c \in Calls |-> {}]
    /\ txs = <<>>
    /\ fin = {}
    /\ rpc = [p \in Passes |-> 0]
    /\ batch = [p \in Passes |-> <<>>]

Init == InitWith(InitBalance)

\* The steps every call takes after its entry step.
Step(c) ==
    \/ CreateCount(c)
    \/ CreateDebit(c)
    \/ CreateSave(c)
    \/ CreateCommit(c)
    \/ JoinDebit(c)
    \/ PickTieCreator(c)
    \/ PickTieOpponent(c)
    \/ PickDecisive(c)
    \/ PickSave(c)
    \/ JoinCommit(c)
    \/ CancelSave(c)
    \/ CancelRefundStep(c)
    \/ CancelCommit(c)
    \/ Return(c)

\* Every other call has returned to its caller.
Quiet(c) == \A o \in Calls \ {c} : pc[o] = "idle"

\* The first NumCreators users create games, with a move of cmoves, while fewer
\* than MaxGames games are stored; any user joins or cancels any game id, stored
\* or not.
EnterWith(c, cmoves) ==
    \/ \E u \in Creators, a \in Amounts, m \in cmoves :
          /\ Len(games) < MaxGames
          /\ CreateCheck(c, u, a, m)
    \/ \E u \in Users, g \in 1..(MaxGames + 1), m \in Moves : JoinRead(c, u, g, m)
    \/ \E u \in Users, g \in 1..(MaxGames + 1) : CancelRead(c, u, g)

Next == \E c \in Calls : EnterWith(c, CreatorMoves) \/ Step(c)

Spec == Init /\ [][Next]_vars

\* The same calls with every creator move, issued one after the other.
SeqNext == \E c \in Calls : (Quiet(c) /\ EnterWith(c, Moves)) \/ Step(c)

SeqSpec == Init /\ [][SeqNext]_vars

\* Wagers of any positive whole amount, issued one call after the other.
WagerAmounts == {1, 25, 100}

WagerEnter(c) ==
    \/ \E u \in Creators, a \in WagerAmounts, m \in CreatorMoves :
          /\ Len(games) < MaxGames
          /\ CreateCheck(c, u, a, m)
    \/ \E u \in Users, g \in 1..(MaxGames + 1), m \in Moves : JoinRead(c, u, g, m)
    \/ \E u \in Users, g \in 1..(MaxGames + 1) : CancelRead(c, u, g)

WagerNext == \E c \in Calls : (Quiet(c) /\ WagerEnter(c)) \/ Step(c)

WagerSpec == Init /\ [][WagerNext]_vars

\* Faults inside the try block. commitTransaction may throw: the catch aborts
\* and nothing is applied.
CommitPcs == {"c_commit", "j_commit", "x_commit"}

CommitFails(c) ==
    /\ pc[c] \in CommitPcs
    /\ UNCHANGED recon
    /\ Abort(c)

\* What the caller is told when the try block fails: the catch's HttpException,
\* or the error abortTransaction raises when the transaction has committed.
FailureResults == {"Failed", "TransactionError"}

\* The notification call after commitTransaction throws: the writes are
\* committed, the catch runs abortTransaction on a committed transaction, and
\* the caller is told the call failed.
NotifyThrows(c) ==
    /\ pc[c] \in CommitPcs
    /\ UNCHANGED recon
    /\ balance' = CommitBalance(c)
    /\ games' = CASE pc[c] = "c_commit" -> Append(games, doc[c])
                  [] pc[c] = "j_commit" ->
                        [games EXCEPT ![gid[c]] = JoinSaved(@, doc[c])]
                  [] pc[c] = "x_commit" ->
                        [games EXCEPT ![gid[c]].status = doc[c].status]
    /\ \E r \in FailureResults : Locals(c, "done", r)
    /\ DropScratch(c)
    /\ stale' = [CommitStale(c) EXCEPT ![c] = {}]
    /\ UNCHANGED <<op, usr, gid, sent>>

FaultNext ==
    \E c \in Calls :
        \/ Quiet(c) /\ EnterWith(c, CreatorMoves)
        \/ Step(c)
        \/ CommitFails(c)
        \/ NotifyThrows(c)

FaultSpec == Init /\ [][FaultNext]_vars

\* ------------------------------------------------- deposit reconciler
TxTypes == {"deposit", "withdraw"}

NewTx(u, type) == [owner |-> u, type |-> type, status |-> "pending"]

Signatures(ts) == 1..Len(ts)

InBatch(b) == {b[i] : i \in 1..Len(b)}

\* Everything but the reconciler's own state and the balances.
gameVars == <<games, pc, op, usr, gid, amt, mv, doc, delta, wset, stale, result, sent>>

\* transactionService.getUnconfirmed(): the pending transactions, oldest first.
GetUnconfirmedAll(ts) == [i \in 1..Len(ts) |-> i]

GetUnconfirmed(ts) ==
    SelectSeq([i \in 1..Len(ts) |-> i], LAMBDA t : ts[t].status = "pending")

\* The recorded amount, positive for a deposit and negative for a withdraw.
TxDelta(tx) ==
    IF tx.type = "deposit" THEN Hundredths(DepositAmount) ELSE 0 - Hundredths(DepositAmount)

\* A deposit or withdraw request records a pending transaction.
Request(u, type) ==
    /\ Len(txs) < NumTxs
    /\ txs' = Append(txs, NewTx(u, type))
    /\ UNCHANGED <<balance, fin, rpc, batch, gameVars>>

\* The chain finalizes a signature.
Finalize(t) ==
    /\ t \in Signatures(txs) \ fin
    /\ fin' = fin \cup {t}
    /\ UNCHANGED <<balance, txs, rpc, batch, gameVars>>

\* checkDeposits up to its call of confirmMany: a pass that finds nothing
\* pending ends at once.
CheckDepositsHandsAll(p) ==
    /\ rpc[p] = 0
    /\ LET unConfirmedTransactions == GetUnconfirmedAll(txs)
       IN  IF Len(unConfirmedTransactions) > 0
           THEN /\ batch' = [batch EXCEPT ![p] = unConfirmedTransactions]
                /\ rpc' = [rpc EXCEPT ![p] = 1]
           ELSE UNCHANGED <<rpc, batch>>
    /\ UNCHANGED <<balance, txs, fin, gameVars>>

CheckDeposits(p) ==
    /\ rpc[p] = 0
    /\ LET unConfirmedTransactions == GetUnconfirmed(txs)
       IN  IF Len(unConfirmedTransactions) > 0
           THEN /\ batch' = [batch EXCEPT ![p] = unConfirmedTransactions]
                /\ rpc' = [rpc EXCEPT ![p] = 1]
           ELSE UNCHANGED <<rpc, batch>>
    /\ UNCHANGED <<balance, txs, fin, gameVars>>

\* The pass moves on to the next transaction of its batch, or ends.
Advance(p) ==
    /\ rpc' = [rpc EXCEPT ![p] = IF @ = Len(batch[p]) THEN 0 ELSE @ + 1]
    /\ batch' = [batch EXCEPT ![p] = IF rpc[p] = Len(@) THEN <<>> ELSE @]

\* confirmMany, one transaction at a time: a finalized signature whose stored
\* status is still pending is flipped to confirmed together with its balance
\* delta, as one atomic unit; anything else is left as it is.
ConfirmNextTrustsBatch(p) ==
    /\ rpc[p] > 0
    /\ LET t == batch[p][rpc[p]]
           u == txs[t].owner
       IN  IF t \in fin /\ balance[u] + TxDelta(txs[t]) >= 0
           THEN /\ txs' = [txs EXCEPT ![t].status = "confirmed"]
                /\ balance' = [balance EXCEPT ![u] = @ + TxDelta(txs[t])]
           ELSE UNCHANGED <<txs, balance>>
    /\ Advance(p)
    /\ UNCHANGED <<fin, gameVars>>

ConfirmNext(p) ==
    /\ rpc[p] > 0
    /\ LET t == batch[p][rpc[p]]
           u == txs[t].owner
       IN  IF t \in fin /\ txs[t].status = "pending" /\ balance[u] + TxDelta(txs[t]) >= 0
           THEN /\ txs' = [txs EXCEPT ![t].status = "confirmed"]
                /\ balance' = [balance EXCEPT ![u] = @ + TxDelta(txs[t])]
           ELSE UNCHANGED <<txs, balance>>
    /\ Advance(p)
    /\ UNCHANGED <<fin, gameVars>>

\* The scheduler starts a pass without awaiting the previous one.
ReconNext ==
    \/ \E u \in Depositors, type \in TxTypes : Request(u, type)
    \/ \E t \in 1..NumTxs : Finalize(t)
    \/ \E p \in Passes : CheckDeposits(p) \/ ConfirmNext(p)

ReconSpec == Init /\ [][ReconNext]_vars

\* Admission control: user 1 creates games with move 0 and cancels them, user 2
\* joins them with move 0 or 1.
AdmInit == InitWith(AdmInitBalance)

AdmEnter(c, targets) ==
    \/ \E a \in Amounts :
          /\ Len(games) < AdmMaxGames
          /\ CreateCheck(c, 1, a, 0)
    \/ \E g \in targets, m \in {0, 1} : JoinRead(c, 2, g, m)
    \/ \E g \in targets : CancelRead(c, 1, g)

AdmNext == \E c \in Calls : AdmEnter(c, {1}) \/ Step(c)

AdmSpec == AdmInit /\ [][AdmNext]_vars

AdmSeqNext == \E c \in Calls : (Quiet(c) /\ AdmEnter(c, {1, 2})) \/ Step(c)

AdmSeqSpec == AdmInit /\ [][AdmSeqNext]_vars

TypeOK ==
    /\ \A u \in Users : balance[u] \in Int
    /\ \A c \in Calls : pc[c] \in {"idle", "c_count", "c_debit", "c_save", "c_commit", "j_debit",
                                     "j_pick", "j_tie", "j_save", "j_commit", "x_save",
                                     "x_refund", "x_commit", "done"}

\* ---------------------------------------------------------------- claims
DoneJoin(c, g) == pc[c] = "done" /\ op[c] = "join" /\ gid[c] = g

\* C1: two joins of two different users on the same game never both succeed:
\* of two such calls that have returned, at most one returned success (the
\* other was rejected), so the game has one opponent and one payout.
C1_ExactlyOneJoinSucceeds ==
    \A c1 \in Calls, c2 \in Calls, g \in 1..Len(games) :
        (c1 # c2 /\ DoneJoin(c1, g) /\ DoneJoin(c2, g) /\ usr[c1] # usr[c2])
            => ~(result[c1] = "ok" /\ result[c2] = "ok")

RECURSIVE SumBalance(_, _)
SumBalance(b, n) == IF n = 0 THEN 0 ELSE b[n] + SumBalance(b, n - 1)

RECURSIVE ActiveStakes(_, _)
ActiveStakes(gs, n) ==
    IF n = 0 THEN 0
    ELSE (IF gs[n].status = "active" THEN PayAmount(gs[n].amount) ELSE 0)
         + ActiveStakes(gs, n - 1)

\* C2: no money is created: the sum of all balances plus the stake
\* amount * (1 + fee) of every active game never exceeds the initial sum of
\* all balances.
C2_NoMoneyCreated ==
    SumBalance(balance, NumUsers) + ActiveStakes(games, Len(games))
        <= NumUsers * Hundredths(InitBalance)

OwnActive(u) ==
    Cardinality({g \in 1..Len(games) : games[g].creator = u /\ games[g].status = "active"})

\* C4: no user has more than 5 active games of their own.
C4_ActiveGameLimit ==
    \A u \in Users : OwnActive(u) <= 5

\* C5: a join and a cancel of the same game never both commit: of two such
\* calls that have returned, at most one returned success.
C5_JoinCancelExclusive ==
    \A c1 \in Calls, c2 \in Calls, g \in 1..Len(games) :
        (/\ DoneJoin(c1, g)
         /\ pc[c2] = "done" /\ op[c2] = "cancel" /\ gid[c2] = g)
            => ~(result[c1] = "ok" /\ result[c2] = "ok")

\* A join whose pickWinner has staged its payout and that has not committed yet.
Settling(c) == pc[c] \in {"j_save", "j_commit"}
Decisive(d) == d.creatorMove # d.opponentMove
Loser(d) == IF d.winner = d.creator THEN d.opponent ELSE d.creator

\* What the join of call c credits to user u, its own debit left aside.
JoinCredit(c, u) == delta[c][u] + (IF u = usr[c] THEN doc[c].amount * (100 + 4) ELSE 0)

\* The creator's debit at create plus everything the join of call c applies.
LifeDelta(c) == SumBalance(delta[c], NumUsers) - doc[c].amount * (100 + 4)

\* C6 as claimed: on a decisive join the winner is credited
\* amount * 2 * (1 - fee), 192 for amount 100, and the loser nothing.
C6_WinnerPaidPotMinusFee ==
    \A c \in Calls :
        (Settling(c) /\ Decisive(doc[c])) =>
            /\ JoinCredit(c, doc[c].winner) = doc[c].amount * 2 * (100 - 4)
            /\ JoinCredit(c, Loser(doc[c])) = 0

\* C6 amended: on a decisive join the winner is credited amount * 2 and the
\* loser nothing; the deltas applied to creator and opponent over the game's
\* life sum to -amount * (1 + fee) * 2 + amount * 2; for amount 100 each side
\* is debited 104 and the winner is credited 200.
C6_WinnerPaidTwiceAmount ==
    \A c \in Calls :
        (Settling(c) /\ Decisive(doc[c])) =>
            /\ JoinCredit(c, doc[c].winner) = doc[c].amount * 2 * 100
            /\ JoinCredit(c, Loser(doc[c])) = 0
            /\ LifeDelta(c) = doc[c].amount * 2 * 100 - doc[c].amount * (100 + 4) * 2
            /\ doc[c].amount = 100 =>
                  /\ delta[c][doc[c].creator] = IF doc[c].winner = doc[c].creator THEN 20000 ELSE 0
                  /\ delta[c][usr[c]] = IF doc[c].winner = usr[c] THEN 20000 - 10400 ELSE -10400

C6_Witness ==
    \E c \in Calls : pc[c] = "j_commit" /\ Decisive(doc[c]) /\ doc[c].winner = doc[c].creator

\* C7: the commit of a join with equal moves leaves the opponent's balance as it
\* was before the join debited it, returns amount * (1 + fee) to the creator,
\* changes no other balance, and the join records no winner.
C7_TieRefundsBoth ==
    [][\A c \in Calls :
        (pc[c] = "j_commit" /\ pc'[c] = "done" /\ ~Decisive(doc[c])) =>
            /\ balance' = [balance EXCEPT ![doc[c].creator] = @ + doc[c].amount * (100 + 4)]
            /\ doc[c].opponent # doc[c].creator
            /\ doc[c].winner = None
            /\ games'[gid[c]].status = "ended"
            /\ games'[gid[c]].opponentMove = games'[gid[c]].creatorMove]_vars

C7_Witness ==
    \E g \in 1..Len(games) :
        /\ games[g].status = "ended"
        /\ games[g].opponentMove = games[g].creatorMove
        /\ games[g].winner = None
        /\ balance[games[g].opponent] = Hundredths(InitBalance)
        /\ balance[games[g].creator] = Hundredths(InitBalance)

\* The cyclic rule: 0 beats 2, 1 beats 0, 2 beats 1.
Beats(a, b) == <<a, b>> \in {<<0, 2>>, <<1, 0>>, <<2, 1>>}

RuleWinner(d) ==
    IF d.creatorMove = d.opponentMove THEN None
    ELSE IF Beats(d.creatorMove, d.opponentMove) THEN d.creator ELSE d.opponent

\* C8: for every pair of moves of {0,1,2} pickWinner records the winner of the
\* cyclic rule: none on equal moves, else the mover of 0 for the pair {0,2}, of 1
\* for {0,1}, of 2 for {1,2}, whichever of creator and opponent played it.
C8_CyclicRule ==
    /\ \A c \in Calls : Settling(c) => doc[c].winner = RuleWinner(doc[c])
    /\ \A g \in 1..Len(games) :
          games[g].status = "ended" => games[g].winner = RuleWinner(games[g])

C8_Witness ==
    \E g \in 1..Len(games) :
        /\ games[g].status = "ended"
        /\ games[g].creatorMove = 2 /\ games[g].opponentMove = 0
        /\ games[g].winner = games[g].opponent

\* C9: a join issued on a game that is ended or cancelled returns GameNotActive
\* and changes no balance and no game; issued one after the other, joins commit
\* only on a game that is still active and end it, so a game is paid out once.
C9_NoSecondSettlement ==
    [][\A c \in Calls :
        /\ (/\ pc[c] = "idle" /\ op'[c] = "join"
            /\ gid'[c] \in 1..Len(games)
            /\ games[gid'[c]].status \in {"ended", "cancelled"})
              => /\ pc'[c] = "done"
                 /\ result'[c] = "GameNotActive"
                 /\ balance' = balance
                 /\ games' = games
        /\ (pc[c] = "j_commit" /\ pc'[c] = "done")
              => /\ games[gid[c]].status = "active"
                 /\ games'[gid[c]].status = "ended"]_vars

C9_Witness ==
    \E c \in Calls :
        /\ DoneJoin(c, gid[c]) /\ result[c] = "GameNotActive"
        /\ gid[c] \in 1..Len(games)
        /\ games[gid[c]].status = "ended"

\* C10: issued one after the other, creates of a user with enough balance
\* succeed while the user has fewer than 5 active games and are rejected with
\* ActiveGameLimitExceeded, leaving balances and games alone, while the user has
\* 5; the user never has more than 5 active games.
C10_SequentialAdmission ==
    /\ [](/\ \A u \in Users : OwnActive(u) <= 5
          /\ \A c \in Calls : (pc[c] = "done" /\ op[c] = "create")
                                 => result[c] \in {"ok", "ActiveGameLimitExceeded"})
    /\ [][\A c \in Calls :
            (pc[c] = "c_count" /\ pc'[c] # "c_count") =>
                IF OwnActive(usr[c]) = 5
                THEN /\ pc'[c] = "done"
                     /\ result'[c] = "ActiveGameLimitExceeded"
                     /\ balance' = balance
                     /\ games' = games
                ELSE pc'[c] = "c_debit"]_vars

\* Five games were created, one left the active state, a sixth was admitted and
\* a seventh create was rejected.
C10_Witness ==
    \E c \in Calls :
        /\ pc[c] = "done" /\ op[c] = "create" /\ result[c] = "ActiveGameLimitExceeded"
        /\ Len(games) = 6
        /\ OwnActive(1) = 5

\* C11: a game's status only moves forward, and once a game is ended or
\* cancelled no step changes its status, opponent, moves, winner or amount.
Terminal(game) == game.status \in {"ended", "cancelled"}

C11_TerminalGamesFrozen ==
    [][\A g \in 1..Len(games) :
          Terminal(games[g]) => games'[g] = games[g]]_vars

\* C12: a create, join or cancel rejected by validation leaves every balance
\* and every game unchanged.
ValidationReasons ==
    {"InsufficientBalance", "ActiveGameLimitExceeded", "GameNotFound",
     "GameNotActive", "SelfJoinForbidden", "NotOwner"}

RejectedNow(c) ==
    /\ pc[c] # "done"
    /\ pc'[c] = "done"
    /\ result'[c] \in ValidationReasons

C12_RejectionChangesNothing ==
    [][\A c \in Calls :
          RejectedNow(c) => (balance' = balance /\ games' = games)]_vars

C12_Witness ==
    \E c1 \in Calls, c2 \in Calls :
        /\ pc[c1] = "done" /\ result[c1] = "GameNotActive"
        /\ pc[c2] = "done" /\ result[c2] = "InsufficientBalance"

\* C13: whenever a call reports a failure from its transactional block, none
\* of its balance deltas or game writes is durably applied.
FailedNow(c) ==
    /\ pc[c] # "done"
    /\ pc'[c] = "done"
    /\ result'[c] \in FailureResults

C13_FailureAppliesNothing ==
    [][\A c \in Calls :
          FailedNow(c) => (balance' = balance /\ games' = games)]_vars

\* C17: a call has emitted notifications only if its transaction committed
\* and it returned success.
C17_NotifyOnlyAfterCommit ==
    \A c \in Calls : sent[c] # {} => (pc[c] = "done" /\ result[c] = "ok")

\* C14: create followed by cancel is a round trip on the creator's balance:
\* a successful create debits the creator amount * (1 + fee) and stores an
\* active game, a successful cancel credits the creator the same sum and
\* stores the game as cancelled, no other balance changes, and once the game
\* is cancelled every balance is back at its value before the create.
StakeWithFee(a) == Hundredths(a) + a * GAME_FEE

OthersKeep(u) == \A o \in Users \ {u} : balance'[o] = balance[o]

Committed(c, p) == pc[c] = p /\ pc'[c] = "done" /\ result'[c] = "ok"

C14_CreateCancelRoundTrip ==
    /\ [][\A c \in Calls :
            /\ Committed(c, "c_commit") =>
                  /\ balance'[usr[c]] = balance[usr[c]] - StakeWithFee(doc[c].amount)
                  /\ OthersKeep(usr[c])
                  /\ Len(games') = Len(games) + 1
                  /\ games'[Len(games')].status = "active"
                  /\ games'[Len(games')].creator = usr[c]
            /\ Committed(c, "x_commit") =>
                  /\ games[gid[c]].status = "active"
                  /\ games[gid[c]].creator = usr[c]
                  /\ balance'[usr[c]] =
                         balance[usr[c]] + StakeWithFee(games[gid[c]].amount)
                  /\ OthersKeep(usr[c])
                  /\ games'[gid[c]].status = "cancelled"]_vars
    /\ []((Len(games) = MaxGames /\ \A g \in 1..Len(games) : games[g].status = "cancelled")
            => \A u \in Users : balance[u] = Hundredths(InitBalance))

C14_Witness ==
    \E c \in Calls :
        /\ pc[c] = "done" /\ op[c] = "cancel" /\ result[c] = "ok"
        /\ games[gid[c]].status = "cancelled"
        /\ balance[games[gid[c]].creator] = Hundredths(InitBalance)

\* C18: a stored game has a winner exactly when it is ended and its two moves
\* differ; the winner is the creator or the opponent, the opponent is never
\* the creator, and a winner once set never changes.
HasWinner(game) == game.winner # None

C18_WinnerInvariant ==
    /\ [](\A g \in 1..Len(games) :
            /\ HasWinner(games[g]) <=>
                  (games[g].status = "ended" /\ games[g].creatorMove # games[g].opponentMove)
            /\ HasWinner(games[g]) => games[g].winner \in {games[g].creator, games[g].opponent}
            /\ games[g].opponent # games[g].creator)
    /\ [][\A g \in 1..Len(games) :
            HasWinner(games[g]) => games'[g].winner = games[g].winner]_vars

\* C15: a reconciliation pass hands only pending transactions to
\* confirmation; no step changes a confirmed transaction; a balance changes
\* only together with a pending -> confirmed flip of a transaction of its
\* owner; and while nothing is pending, passes change no balance.
Pending(t) == txs[t].status = "pending"

Flips(t) == Pending(t) /\ txs'[t].status = "confirmed"

RECURSIVE ConfirmedSum(_, _, _)
ConfirmedSum(ts, u, n) ==
    IF n = 0 THEN 0
    ELSE (IF ts[n].owner = u /\ ts[n].status = "confirmed" THEN TxDelta(ts[n]) ELSE 0)
         + ConfirmedSum(ts, u, n - 1)

C16_ConfirmedExactlyOnce ==
    /\ [](\A u \in Users :
            balance[u] = Hundredths(InitBalance) + ConfirmedSum(txs, u, Len(txs)))
    /\ [][\A t \in Signatures(txs) : txs'[t].status = "pending" => Pending(t)]_vars

\* Two passes read the same pending transaction; one has confirmed it and the
\* other still has it ahead in its batch.
C16_Witness ==
    \E p \in Passes, t \in Signatures(txs) :
        /\ rpc[p] > 0
        /\ batch[p][rpc[p]] = t
        /\ ~Pending(t)

\* C19: every balance is a whole number of units in every reachable state
\* (balances are kept in hundredths of a unit here).
C19_BalancesWholeUnits ==
    \A u \in Users : balance[u] % Hundredths(1) = 0

\* Each party's balance change over create, join and settlement of the game
\* that call c is settling, in the transactional variant and in the
\* non-transactional one on a tie.
CreatorNet(c) == delta[c][doc[c].creator] - PayAmount(doc[c].amount)

OpponentNet(c) == delta[c][usr[c]]

OldTieNet(d) == OldTieRefund(d.amount) - OldStake(d.amount)

Wraparound(d) == {d.creatorMove, d.opponentMove} = {0, 2}

\* C20 as claimed: on the same game the two variants pick different winners
\* for the (0,2)/(2,0) pair, and on a tie each party's net balance change
\* differs between the two variants.
C20_VariantsDisagreeOnTieFee ==
    \A c \in Calls :
        Settling(c) =>
            /\ Wraparound(doc[c]) => OldWinner(doc[c]) # doc[c].winner
            /\ ~Decisive(doc[c]) =>
                  /\ CreatorNet(c) # OldTieNet(doc[c])
                  /\ OpponentNet(c) # OldTieNet(doc[c])

\* C20 amended: the two variants pick different winners exactly for the
\* (0,2)/(2,0) pair, and on a tie they agree: each party's net balance change
\* is zero in both, so neither retains a fee on a tie.
C20_VariantsDifferOnWraparound ==
    \A c \in Calls :
        Settling(c) =>
            /\ Decisive(doc[c]) =>
                  (OldWinner(doc[c]) # doc[c].winner <=> Wraparound(doc[c]))
            /\ ~Decisive(doc[c]) =>
                  /\ CreatorNet(c) = 0
                  /\ OpponentNet(c) = 0
                  /\ OldTieNet(doc[c]) = 0

C20_Witness ==
    \E c \in Calls :
        /\ Settling(c)
        /\ doc[c].creatorMove = 2
        /\ doc[c].opponentMove = 0
        /\ doc[c].winner = doc[c].opponent
        /\ OldWinner(doc[c]) = doc[c].creator

====
